---- MODULE Spec2Model ----
(***************************************************************************)
(* The realtime collaborative task board of the client-portal backend      *)
(* (src/main.py, section "Kanban Board"): the kanbantask collection, the   *)
(* handlers kanban_create, kanban_update, kanban_move, kanban_list, and    *)
(* the way they hand change events to the ConnectionManager.               *)
(*                                                                         *)
(* Ordering keys ("position") are Python floats.  They are modelled as     *)
(* binary fixed-point numbers with FracBits fractional bits: the integer n *)
(* stands for n / 2^FracBits, 1.0 is One, and a midpoint that is not       *)
(* representable is rounded to nearest, ties to even, as IEEE-754 does for *)
(* two keys of one binade.                                                 *)
(***************************************************************************)
EXTENDS Integers, Sequences, FiniteSets, TLC

\* ------------------------------------------------------------------ bounds
MaxTasks == 3        \* documents the kanbantask collection may hold
MaxClock == 4        \* committed writes in one behaviour
FracBits == 1        \* fractional bits of an ordering key
MaxMag   == 4        \* |position| <= MaxMag.0
MaxAppends == 3      \* consecutive appends a property follows
MaxConns == 2        \* websockets that connect in one behaviour
MaxEvents == 1       \* broadcasts handed to the event loop in one behaviour
MaxWsWrites == 2     \* committed task writes while websockets are followed
MaxPubEvents == 2    \* broadcasts in one behaviour where their order is followed
MaxThreads == 2      \* worker threads that handle task requests at the same time
MaxRaceOps == 3      \* task requests handled where their race is followed

RECURSIVE Pow2(_)
Pow2(n) == IF n = 0 THEN 1 ELSE 2 * Pow2(n - 1)

One == Pow2(FracBits)          \* the float 1.0
KeyCap == MaxMag * One

\* --------------------------------------------------------------- constants
Columns == {"todo", "in_progress", "under_review", "completed"}
Clients == {"T1", "T2"}
\* the callers the actions draw from: one with the role and one without
Callers == {"project_manager", "client"}

Null == "null"                 \* JSON null / Python None for a text field
NoId == 0                      \* before_id / after_id absent (None or "")
BadId == 0 - 1                 \* a string ObjectId() rejects

OK == 200
BadRequest == 400
Forbidden == 403
NotFound == 404
Unprocessable == 422
ServerError == 500

VARIABLES
    store,       \* db["kanbantask"]: document id -> document
    clock,       \* datetime.now(timezone.utc), one tick per committed write
    scheduled,   \* broadcast coroutines handed to the event loop, in order
    last,        \* the last request handled and its response
    active,      \* manager.active: client_id -> list of websockets
    conn,        \* each websocket: its client_id, where ws_kanban stands, whether
                 \* the peer still holds the connection, whether a send to it
                 \* raised, whether the peer has stopped reading
    inbox,       \* each websocket: the messages its peer has received, in order
    running,     \* the broadcast tasks the event loop has started and not finished
    published,   \* number of broadcasts handed to the event loop so far
    aborted,     \* number of broadcast tasks ended by an exception
    threads      \* each worker thread: the request it handles and what it has read

wsvars == <<active, conn, inbox, running, published, aborted>>
vars == <<store, clock, scheduled, last, active, conn, inbox, running, published, aborted,
          threads>>

\* ------------------------------------------------------------------ helpers
\* oid(): ObjectId(id_str) raises for a malformed string -> 400 "Invalid ID"
oid_ok(id) == id > 0

\* db["kanbantask"].find_one({"_id": oid(id)}): the documents matching, << >>
\* standing for None
find_one(s, id) == IF id \in DOMAIN s THEN <<s[id]>> ELSE <<>>

\* require_pm_or_admin: the X-User-Role header, "" when absent
RoleOk(role) == role \in {"admin", "project_manager"}

SetMax(S) == CHOOSE m \in S : \A x \in S : x <= m

SetMin(S) == CHOOSE m \in S : \A x \in S : m <= x

\* the same with sort("position", 1): the first document holds the smallest key
NextAfter_Ascending(S) == IF S = {} THEN One ELSE SetMin(S) + One
\* find(q).sort("position", -1).limit(1) then float(position) + 1.0, else 1.0
NextAfter(S) == IF S = {} THEN One ELSE SetMax(S) + One

\* asyncio.create_task(coro): schedules coro on the running loop of the
\* calling thread and raises RuntimeError when that thread runs no loop.
create_task(loop_running, sch, coro) ==
    IF loop_running
    THEN [raised |-> FALSE, sched |-> Append(sch, coro)]
    ELSE [raised |-> TRUE, sched |-> sch]

\* kanban_create, kanban_update and kanban_move are plain "def" handlers:
\* the framework runs them in a worker thread, where no event loop runs.
HandlerInLoop == FALSE

\* create_document("kanbantask", task): assigns the id and the timestamps
create_document(s, task, now) ==
    Append(s, [client_id |-> task.client_id, title |-> task.title,
               status |-> task.status, position |-> task.position,
               created_at |-> now, updated_at |-> now])

Resp(code, s, sch, tid) == [code |-> code, store |-> s, sched |-> sch, tid |-> tid]

\* -------------------------------------------------------------- kanban_list
\* sort([("status", 1), ("position", 1), ("created_at", 1)]): strings compare
\* by their characters
StatusOrd(status) ==
    CASE status = "completed" -> 1
      [] status = "in_progress" -> 2
      [] status = "todo" -> 3
      [] status = "under_review" -> 4
      [] OTHER -> 5

\* document i sorts before document j (the id stands for the store's natural
\* order, which decides between documents equal on all three keys)
SortsBefore(s, i, j) ==
    \/ StatusOrd(s[i].status) < StatusOrd(s[j].status)
    \/ /\ s[i].status = s[j].status
       /\ \/ s[i].position < s[j].position
          \/ /\ s[i].position = s[j].position
             /\ \/ s[i].created_at < s[j].created_at
                \/ s[i].created_at = s[j].created_at /\ i < j

RECURSIVE SortIds(_, _)
SortIds(s, S) ==
    IF S = {} THEN <<>>
    ELSE LET first == CHOOSE i \in S : \A j \in S \ {i} : SortsBefore(s, i, j)
         IN  <<first>> \o SortIds(s, S \ {first})

\* q = {"client_id": client_id} plus {"status": status} when status is given
kanban_list(s, client_id, status) ==
    SortIds(s, {i \in DOMAIN s : /\ s[i].client_id = client_id
                                 /\ (status = Null \/ s[i].status = status)})

\* ------------------------------------------------------------ kanban_create
\* KanbanCreatePayload: client_id and title are required strings
CreatePayloadOk(client_id, title) == client_id # Null /\ title # Null

\* the same with a query that names no client_id
CreatePos_Global(s, client_id) ==
    NextAfter({s[i].position : i \in {j \in DOMAIN s : s[j].status = "todo"}})
CreatePos(s, client_id) ==
    NextAfter({s[i].position :
                 i \in {j \in DOMAIN s : s[j].client_id = client_id /\ s[j].status = "todo"}})

kanban_create(s, sch, now, role, client_id, title) ==
    IF ~CreatePayloadOk(client_id, title) THEN Resp(Unprocessable, s, sch, NoId)
    ELSE IF ~RoleOk(role) THEN Resp(Forbidden, s, sch, NoId)
    ELSE LET task == [client_id |-> client_id, title |-> title, status |-> "todo",
                      position |-> CreatePos(s, client_id)]
             s2 == create_document(s, task, now)
             tid == Len(s2)
             t == create_task(HandlerInLoop, sch,
                              [client |-> client_id, type |-> "kanban:create", id |-> tid])
         IN  IF t.raised THEN Resp(ServerError, s2, sch, tid)
             ELSE Resp(OK, s2, t.sched, tid)

\* -------------------------------------------------------------- kanban_move
\* KanbanMovePayload: to_status is a Literal of the four columns
MovePayloadOk(to_status) == to_status \in Columns

\* the same without the division by 2.0
MidPoint_Sum(a, b) == a + b
\* (float(before.position) + float(after.position)) / 2.0, rounded to the
\* nearest representable key, ties to even
MidPoint(a, b) ==
    LET sum == a + b
        lo == (sum - 1) \div 2
    IN  IF sum % 2 = 0 THEN sum \div 2
        ELSE IF lo % 2 = 0 THEN lo ELSE lo + 1

\* float(before.position) - 1.0
BeforePos(k) == k - One

\* float(after.position) + 1.0
AfterPos(k) == k + One

\* find({"status": to_col}).sort("position", -1).limit(1): the query names
\* no client_id, so it ranges over the documents of every tenant
AppendPos(s, client_id, to_col) ==
    NextAfter({s[i].position : i \in {j \in DOMAIN s : s[j].status = to_col}})

\* the branch on before_id / after_id: [code, pos], code = OK when a position
\* was computed
MovePos(s, client_id, to_col, before_id, after_id) ==
    IF before_id # NoId /\ after_id # NoId THEN
        IF ~oid_ok(before_id) \/ ~oid_ok(after_id) THEN [code |-> BadRequest, pos |-> 0]
        ELSE LET before == find_one(s, before_id)
                 after == find_one(s, after_id)
             IN  IF before = <<>> \/ after = <<>> THEN [code |-> BadRequest, pos |-> 0]
                 ELSE [code |-> OK, pos |-> MidPoint(before[1].position, after[1].position)]
    ELSE IF before_id # NoId THEN
        IF ~oid_ok(before_id) THEN [code |-> BadRequest, pos |-> 0]
        ELSE LET before == find_one(s, before_id)
             IN  IF before = <<>> THEN [code |-> ServerError, pos |-> 0]
                 ELSE [code |-> OK, pos |-> BeforePos(before[1].position)]
    ELSE IF after_id # NoId THEN
        IF ~oid_ok(after_id) THEN [code |-> BadRequest, pos |-> 0]
        ELSE LET after == find_one(s, after_id)
             IN  IF after = <<>> THEN [code |-> ServerError, pos |-> 0]
                 ELSE [code |-> OK, pos |-> AfterPos(after[1].position)]
    ELSE [code |-> OK, pos |-> AppendPos(s, client_id, to_col)]

\* the same, shifting the tasks of the target column at or behind pos by 1.0
MoveWrite_Renumber(s, id, to_col, pos, now) ==
    [i \in DOMAIN s |->
        IF i = id
        THEN [s[i] EXCEPT !.status = to_col, !.position = pos, !.updated_at = now]
        ELSE IF s[i].status = to_col /\ s[i].position >= pos
        THEN [s[i] EXCEPT !.position = @ + One]
        ELSE s[i]]
\* update_one({"_id": ...}, {"$set": {status, position, updated_at}})
MoveWrite(s, id, to_col, pos, now) ==
    [s EXCEPT ![id] = [@ EXCEPT !.status = to_col, !.position = pos, !.updated_at = now]]

kanban_move(s, sch, now, role, task_id, to_status, before_id, after_id) ==
    IF ~MovePayloadOk(to_status) THEN Resp(Unprocessable, s, sch, NoId)
    ELSE IF ~RoleOk(role) THEN Resp(Forbidden, s, sch, NoId)
    ELSE LET client_id == IF task_id \in DOMAIN s THEN s[task_id].client_id ELSE Null
             p == MovePos(s, client_id, to_status, before_id, after_id)
         IN  IF p.code # OK THEN Resp(p.code, s, sch, NoId)
             ELSE IF ~oid_ok(task_id) THEN Resp(BadRequest, s, sch, NoId)
             ELSE IF find_one(s, task_id) = <<>> THEN Resp(NotFound, s, sch, NoId)
             ELSE LET s2 == MoveWrite(s, task_id, to_status, p.pos, now)
                      t == create_task(HandlerInLoop, sch,
                                       [client |-> s2[task_id].client_id,
                                        type |-> "kanban:move", id |-> task_id])
                  IN  IF t.raised THEN Resp(ServerError, s2, sch, task_id)
                      ELSE Resp(OK, s2, t.sched, task_id)

\* ------------------------------------------------------------ kanban_update
\* KanbanUpdatePayload: every field Optional; status a Literal of the columns.
\* A payload is [title, status, position]: Null / << >> for a field that is
\* None, <<p>> for position p.
UpdatePayloadOk_Any(payload) == TRUE
UpdatePayloadOk(payload) == payload.status \in Columns \cup {Null}

\* the same without the early return for an empty update
UpdateEmpty_Never(payload) == FALSE
\* update = {k: v for k, v in payload.model_dump().items() if v is not None}
UpdateEmpty(payload) ==
    payload.title = Null /\ payload.status = Null /\ payload.position = <<>>

\* the same with a title that is None written too
UpdateWrite_SetAll(s, id, payload, now) ==
    [s EXCEPT ![id] =
        [@ EXCEPT !.title = payload.title,
                  !.status = IF payload.status = Null THEN @ ELSE payload.status,
                  !.position = IF payload.position = <<>> THEN @ ELSE payload.position[1],
                  !.updated_at = now]]
\* update_one({"_id": ...}, {"$set": update}) with update["updated_at"] = now
UpdateWrite(s, id, payload, now) ==
    [s EXCEPT ![id] =
        [@ EXCEPT !.title = IF payload.title = Null THEN @ ELSE payload.title,
                  !.status = IF payload.status = Null THEN @ ELSE payload.status,
                  !.position = IF payload.position = <<>> THEN @ ELSE payload.position[1],
                  !.updated_at = now]]

\* the same with the broadcast handed to a running loop before the lookup
kanban_update_NotifyFirst(s, sch, now, role, task_id, payload) ==
    IF ~UpdatePayloadOk(payload) THEN Resp(Unprocessable, s, sch, NoId)
    ELSE IF ~RoleOk(role) THEN Resp(Forbidden, s, sch, NoId)
    ELSE IF ~oid_ok(task_id) THEN Resp(BadRequest, s, sch, NoId)
    ELSE LET sch2 == Append(sch, [client |-> IF find_one(s, task_id) = <<>> THEN Null
                                             ELSE s[task_id].client_id,
                                  type |-> "kanban:update", id |-> task_id])
         IN  IF find_one(s, task_id) = <<>> THEN Resp(NotFound, s, sch2, NoId)
             ELSE IF UpdateEmpty(payload) THEN Resp(OK, s, sch2, task_id)
             ELSE Resp(OK, UpdateWrite(s, task_id, payload, now), sch2, task_id)

kanban_update(s, sch, now, role, task_id, payload) ==
    IF ~UpdatePayloadOk(payload) THEN Resp(Unprocessable, s, sch, NoId)
    ELSE IF ~RoleOk(role) THEN Resp(Forbidden, s, sch, NoId)
    ELSE IF ~oid_ok(task_id) THEN Resp(BadRequest, s, sch, NoId)
    ELSE IF find_one(s, task_id) = <<>> THEN Resp(NotFound, s, sch, NoId)
    ELSE IF UpdateEmpty(payload) THEN Resp(OK, s, sch, task_id)
    ELSE LET s2 == UpdateWrite(s, task_id, payload, now)
             t == create_task(HandlerInLoop, sch,
                              [client |-> s2[task_id].client_id,
                               type |-> "kanban:update", id |-> task_id])
         IN  IF t.raised THEN Resp(ServerError, s2, sch, task_id)
             ELSE Resp(OK, s2, t.sched, task_id)

\* ------------------------------------------------------- ConnectionManager
Conns == 1 .. MaxConns

\* self.active.setdefault(client_id, []).append(websocket)
\* the same with the websocket appended twice
connect_Twice(act, client_id, w) ==
    IF client_id \in DOMAIN act
    THEN [act EXCEPT ![client_id] = Append(Append(@, w), w)]
    ELSE [c \in DOMAIN act \cup {client_id} |->
             IF c = client_id THEN <<w, w>> ELSE act[c]]

connect(act, client_id, w) ==
    IF client_id \in DOMAIN act
    THEN [act EXCEPT ![client_id] = Append(@, w)]
    ELSE [c \in DOMAIN act \cup {client_id} |->
            IF c = client_id THEN <<w>> ELSE act[c]]

InList(arr, w) == \E k \in 1 .. Len(arr) : arr[k] = w

\* arr.remove(websocket): the first occurrence
Remove(arr, w) ==
    LET k == CHOOSE j \in 1 .. Len(arr) :
                 arr[j] = w /\ \A h \in 1 .. j - 1 : arr[h] # w
    IN  [j \in 1 .. Len(arr) - 1 |-> IF j < k THEN arr[j] ELSE arr[j + 1]]

\* the same without the pop of an entry that became empty
disconnect_NoPop(act, client_id, w) ==
    IF client_id \notin DOMAIN act \/ act[client_id] = <<>> THEN act
    ELSE IF InList(act[client_id], w)
    THEN [act EXCEPT ![client_id] = Remove(@, w)]
    ELSE act
\* ConnectionManager.disconnect
disconnect(act, client_id, w) ==
    IF client_id \notin DOMAIN act \/ act[client_id] = <<>> THEN act
    ELSE LET arr == IF InList(act[client_id], w) THEN Remove(act[client_id], w)
                    ELSE act[client_id]
         IN  IF arr = <<>> THEN [c \in DOMAIN act \ {client_id} |-> act[c]]
             ELSE [act EXCEPT ![client_id] = arr]

\* the same over the websockets of every client
Snapshot_All(act, client_id) ==
    LET RECURSIVE Cat(_)
        Cat(S) == IF S = {} THEN <<>>
                  ELSE LET c == CHOOSE x \in S : TRUE IN act[c] \o Cat(S \ {c})
    IN  Cat(DOMAIN act)
\* broadcast: conns = list(self.active.get(client_id, []))
Snapshot(act, client_id) ==
    IF client_id \in DOMAIN act THEN act[client_id] ELSE <<>>

\* upload_logo is an "async def" handler: it runs on the event loop
AsyncHandlerInLoop == TRUE

\* upload_logo: require_pm_or_admin, then the file and the profile are
\* written, then create_task inside try / except Exception: pass
\* ext stands for the extension of the uploaded file, which is all that tells
\* the url of one logo of a client from the url of another
upload_logo(sch, role, client_id, ext) ==
    IF ~RoleOk(role) THEN [code |-> Forbidden, sched |-> sch]
    ELSE [code |-> OK,
          sched |-> create_task(AsyncHandlerInLoop, sch,
                                [client |-> client_id, type |-> "brand:logo",
                                 id |-> NoId, url |-> ext]).sched]

\* What `last` keeps of a request: the operation, whether the caller's role
\* was admin or project_manager, the response code and, for a request the
\* handler carried through (tid is the task it addressed), the shape of the
\* request, the target column, the neighbour ids and the fields of an update.
NoFields == [title |-> Null, status |-> Null, position |-> <<>>]

Req(op, kind, role, to, before_id, after_id, payload) ==
    [op |-> op, kind |-> kind, auth |-> role \in {"admin", "project_manager"},
     to |-> to, before |-> before_id, after |-> after_id, payload |-> payload]

Commit(r, req) ==
    /\ store' = r.store
    /\ scheduled' = r.sched
    /\ clock' = IF r.store # store THEN clock + 1 ELSE clock
    /\ last' = [op |-> req.op, auth |-> req.auth, code |-> r.code, tid |-> r.tid,
                kind |-> IF r.tid # NoId THEN req.kind ELSE "rejected",
                to |-> IF r.tid # NoId THEN req.to ELSE Null,
                before |-> IF r.tid # NoId THEN req.before ELSE NoId,
                after |-> IF r.tid # NoId THEN req.after ELSE NoId,
                payload |-> IF r.tid # NoId THEN req.payload ELSE NoFields]
    /\ published' = published + Len(r.sched) - Len(scheduled)
    /\ UNCHANGED <<threads, active, conn, inbox, running, aborted>>

InBounds(s) ==
    /\ Len(s) <= MaxTasks
    /\ \A i \in DOMAIN s : s[i].position >= 0 - KeyCap /\ s[i].position <= KeyCap

DoCreate ==
    \E role \in Callers, client_id \in Clients, title \in {"t", Null} :
        LET r == kanban_create(store, scheduled, clock, role, client_id, title)
        IN  /\ clock < MaxClock
            /\ InBounds(r.store)
            /\ Commit(r, Req("create", "append", role, "todo", NoId, NoId, NoFields))

\* ids a request may carry: every id the collection can hold, one well-formed
\* id it never holds, and a malformed one
UnknownId(s) == Len(s) + 1
TaskIds(s) == DOMAIN s \cup {UnknownId(s), BadId}

MoveKind(before_id, after_id) ==
    IF before_id # NoId /\ after_id # NoId THEN "both"
    ELSE IF before_id # NoId THEN "before"
    ELSE IF after_id # NoId THEN "after"
    ELSE "append"

MoveTargets == {"todo", "in_progress"}

MoveStep(role, task_id, to_status, before_id, after_id) ==
    LET r == kanban_move(store, scheduled, clock, role, task_id, to_status,
                         before_id, after_id)
    IN  /\ clock < MaxClock
        /\ InBounds(r.store)
        /\ Commit(r, Req("move", MoveKind(before_id, after_id), role, to_status,
                         before_id, after_id, NoFields))

\* an authorized caller, a body the schema accepts, a stored task and every
\* pair of stored or absent neighbours
DoMove ==
    \E role \in Callers \cap {"admin", "project_manager"},
       task_id \in DOMAIN store, to_status \in MoveTargets,
       before_id \in DOMAIN store \cup {NoId}, after_id \in DOMAIN store \cup {NoId} :
        MoveStep(role, task_id, to_status, before_id, after_id)

\* the same caller naming a well-formed id that no stored task has, as the
\* task or as a neighbour
DoMoveUnknown ==
    \E role \in Callers \cap {"admin", "project_manager"},
       task_id \in {1, UnknownId(store)}, to_status \in {"todo"},
       before_id \in {NoId, 1, UnknownId(store)},
       after_id \in {NoId, 1, UnknownId(store)} :
        /\ UnknownId(store) \in {task_id, before_id, after_id}
        /\ MoveStep(role, task_id, to_status, before_id, after_id)

\* a request with one defect: a caller without the role, a body the schema
\* rejects, or a malformed id; and a request with the first two
DoMoveRejected ==
    \E role \in Callers, task_id \in {1, BadId}, to_status \in {"todo", "bogus"},
       before_id \in {NoId, BadId}, after_id \in {NoId, BadId} :
        /\ \/ /\ role \notin {"admin", "project_manager"}
              /\ <<task_id, before_id, after_id>> = <<1, NoId, NoId>>
           \/ /\ role \in {"admin", "project_manager"}
              /\ to_status = "bogus"
              /\ <<task_id, before_id, after_id>> = <<1, NoId, NoId>>
           \/ /\ role \in {"admin", "project_manager"}
              /\ to_status = "todo"
              /\ <<task_id, before_id, after_id>>
                   \in {<<BadId, NoId, NoId>>, <<1, BadId, NoId>>, <<1, NoId, BadId>>}
        /\ MoveStep(role, task_id, to_status, before_id, after_id)

UpdateTitles == {Null, "x"}
UpdateStatuses == {Null, "in_progress", "bogus"}
UpdatePositions == {<<>>, <<One + 1>>}
\* a body with any title and status, or with a position only
UpdatePayloads ==
    [title : UpdateTitles, status : UpdateStatuses, position : {<<>>}]
    \cup [title : {Null}, status : {Null}, position : UpdatePositions]

DoUpdate ==
    \E role \in Callers, task_id \in TaskIds(store), payload \in UpdatePayloads :
        LET r == kanban_update(store, scheduled, clock, role, task_id, payload)
        IN  /\ role \notin {"admin", "project_manager"} => task_id \in {1, BadId}
            /\ clock < MaxClock
            /\ InBounds(r.store)
            /\ Commit(r, Req("update", IF payload = NoFields THEN "empty" ELSE "fields",
                             role, payload.status, NoId, NoId, payload))

\* ------------------------------------------------------------ worker threads
\* kanban_create and kanban_move are plain def handlers: each request runs in
\* a thread of the pool, and between its find and its write the other threads
\* run
Threads == 1 .. MaxThreads

Idle == [pc |-> "idle", client |-> Null, tid |-> NoId, to |-> Null, pos |-> 0]

Busy == Cardinality({t \in Threads : threads[t].pc # "idle"})

\* what a thread leaves behind when its handler has written: the response, and
\* the write itself
Written(t, s2, tid, kind) ==
    LET b == create_task(HandlerInLoop, scheduled,
                         [client |-> s2[tid].client_id, type |-> kind, id |-> tid])
    IN  /\ InBounds(s2)
        /\ store' = s2
        /\ clock' = clock + 1
        /\ scheduled' = b.sched
        /\ published' = published + Len(b.sched) - Len(scheduled)
        /\ last' = [op |-> threads[t].pc, auth |-> TRUE,
                    code |-> IF b.raised THEN ServerError ELSE OK, tid |-> tid,
                    kind |-> "append", to |-> threads[t].to,
                    before |-> NoId, after |-> NoId, payload |-> NoFields]
        /\ threads' = [threads EXCEPT ![t] = Idle]
        /\ UNCHANGED <<active, conn, inbox, running, aborted>>

\* kanban_create as far as next_pos: the find of the last task of the column
RaceCreateRead ==
    \E t \in Threads, client_id \in Clients :
        /\ threads[t].pc = "idle"
        /\ clock + Busy < MaxRaceOps
        /\ threads' = [threads EXCEPT ![t] =
                           [pc |-> "create", client |-> client_id, tid |-> NoId,
                            to |-> "todo", pos |-> CreatePos(store, client_id)]]
        /\ UNCHANGED <<store, clock, scheduled, last, wsvars>>

\* kanban_create from Kanbantask(...) on: create_document with the key read
RaceCreateWrite ==
    \E t \in Threads :
        /\ threads[t].pc = "create"
        /\ LET s2 == create_document(store,
                                     [client_id |-> threads[t].client, title |-> "t",
                                      status |-> "todo", position |-> threads[t].pos],
                                     clock)
           IN  Written(t, s2, Len(s2), "kanban:create")

\* kanban_move without neighbours as far as pos: the find of the last task of
\* the column
RaceMoveRead ==
    \E t \in Threads, task_id \in DOMAIN store, to_col \in MoveTargets :
        /\ threads[t].pc = "idle"
        /\ clock + Busy < MaxRaceOps
        /\ threads' = [threads EXCEPT ![t] =
                           [pc |-> "move", client |-> store[task_id].client_id,
                            tid |-> task_id, to |-> to_col,
                            pos |-> AppendPos(store, store[task_id].client_id, to_col)]]
        /\ UNCHANGED <<store, clock, scheduled, last, wsvars>>

\* kanban_move from update_one on, with the key read
RaceMoveWrite ==
    \E t \in Threads :
        /\ threads[t].pc = "move"
        /\ Written(t, MoveWrite(store, threads[t].tid, threads[t].to, threads[t].pos, clock),
                   threads[t].tid, "kanban:move")

\* ---------------------------------------------------------------- ws_kanban
\* await manager.connect(client_id, websocket): websockets connect in the
\* order of their numbers
WsConnect ==
    \E w \in Conns, client_id \in Clients :
        /\ conn[w].pc = "new"
        /\ \A v \in 1 .. w - 1 : conn[v].pc # "new"
        /\ active' = connect(active, client_id, w)
        /\ conn' = [conn EXCEPT ![w] = [tenant |-> client_id, pc |-> "receiving",
                                         open |-> TRUE, failed |-> FALSE,
                                         stalled |-> FALSE]]
        /\ UNCHANGED <<threads, store, clock, scheduled, last, inbox, running, published, aborted>>

\* the peer closes or loses the connection while ws_kanban waits in
\* receive_text
WsClose ==
    \E w \in Conns :
        /\ conn[w].pc = "receiving" /\ conn[w].open
        /\ conn' = [conn EXCEPT ![w].open = FALSE]
        /\ UNCHANGED <<threads, store, clock, scheduled, last, active, inbox, running,
                       published, aborted>>

\* receive_text raises WebSocketDisconnect: manager.disconnect, handler ends
WsDisconnect ==
    \E w \in Conns :
        /\ conn[w].pc = "receiving" /\ ~conn[w].open
        /\ active' = disconnect(active, conn[w].tenant, w)
        /\ conn' = [conn EXCEPT ![w].pc = "ended"]
        /\ UNCHANGED <<threads, store, clock, scheduled, last, inbox, running, published, aborted>>

\* the peer sends a binary frame: receive_text raises KeyError, which
\* ws_kanban does not catch; the handler ends and the server closes the socket
WsBinary ==
    \E w \in Conns :
        /\ conn[w].pc = "receiving" /\ conn[w].open
        /\ conn' = [conn EXCEPT ![w].pc = "crashed", ![w].open = FALSE]
        /\ UNCHANGED <<threads, store, clock, scheduled, last, active, inbox, running,
                       published, aborted>>

\* the peer stops reading: the server's write buffer fills and a send to this
\* websocket does not complete while the connection stays up
WsStall ==
    \E w \in Conns :
        /\ conn[w].pc = "receiving" /\ conn[w].open /\ ~conn[w].stalled
        /\ conn' = [conn EXCEPT ![w].stalled = TRUE]
        /\ UNCHANGED <<threads, store, clock, scheduled, last, active, inbox, running,
                       published, aborted>>

\* -------------------------------------------------------------- upload_logo
\* the uploads of one behaviour carry different extensions, the n-th one the
\* extension n
UploadLogo ==
    \E role \in Callers, client_id \in Clients :
        LET r == upload_logo(scheduled, role, client_id, published + 1)
        IN  /\ published < MaxEvents
            /\ scheduled' = r.sched
            /\ published' = published + Len(r.sched) - Len(scheduled)
            /\ UNCHANGED <<threads, store, clock, last, active, conn, inbox, running, aborted>>

\* the same where the order of several broadcasts is followed
UploadLogoPub ==
    \E role \in Callers, client_id \in Clients :
        LET r == upload_logo(scheduled, role, client_id, published + 1)
        IN  /\ published < MaxPubEvents
            /\ scheduled' = r.sched
            /\ published' = published + Len(r.sched) - Len(scheduled)
            /\ UNCHANGED <<threads, store, clock, last, active, conn, inbox, running, aborted>>

\* ---------------------------------------------------------------- broadcast
\* the event loop starts the oldest scheduled task: broadcast takes its
\* snapshot of the client's websockets; with none it returns at once
BroadcastStart ==
    /\ scheduled # <<>>
    /\ LET e == Head(scheduled)
           conns == Snapshot(active, e.client)
       IN  running' = IF conns = <<>> THEN running
                      ELSE Append(running, [msg |-> e, conns |-> conns, i |-> 1])
    /\ scheduled' = Tail(scheduled)
    /\ UNCHANGED <<threads, store, clock, last, active, conn, inbox, published, aborted>>

\* await ws.send_json(message): delivered to a peer that holds the connection;
\* otherwise the send raises, RuntimeError or another exception depending on
\* the state of the socket and on the server
\* to a peer that has stopped reading the send stays suspended
SendOutcomes(c) ==
    IF ~c.open THEN {"RuntimeError", "OtherError"}
    ELSE IF c.stalled THEN {}
    ELSE {"sent"}

WithoutTask(run, k) ==
    [j \in 1 .. Len(run) - 1 |-> IF j < k THEN run[j] ELSE run[j + 1]]

\* the same over the registry's own list where it reaches as far as the task
Recipients_Live(task, act) ==
    IF task.i <= Len(Snapshot(act, task.msg.client))
    THEN Snapshot(act, task.msg.client)
    ELSE task.conns

\* "for ws in conns": the loop runs over the copy made when broadcast started,
\* whatever connect and disconnect have done to self.active since
Recipients(task, act) == task.conns

\* one turn of "for ws in conns" in task k: except RuntimeError: pass; any
\* other exception ends the task
BroadcastSend ==
    \E k \in 1 .. Len(running) :
        LET task == running[k]
            w == Recipients(task, active)[task.i]
        IN  \E out \in SendOutcomes(conn[w]) :
                /\ inbox' = IF out = "sent"
                             THEN [inbox EXCEPT ![w] = Append(@, task.msg)]
                             ELSE inbox
                /\ conn' = IF out = "sent" THEN conn
                            ELSE [conn EXCEPT ![w].failed = TRUE]
                /\ aborted' = IF out = "OtherError" THEN aborted + 1 ELSE aborted
                /\ running' = IF out = "OtherError"
                                  \/ task.i = Len(Recipients(task, active))
                               THEN WithoutTask(running, k)
                               ELSE [running EXCEPT ![k].i = @ + 1]
                /\ UNCHANGED <<threads, store, clock, scheduled, last, active, published>>

\* the task handlers while websockets are connected
WsKanban == clock < MaxWsWrites /\ (DoCreate \/ DoUpdate \/ DoMove)

\* ================================================================== claims
\* Requests the properties range over: every role, every id a request may
\* carry, valid and invalid payloads.
AllUpdates ==
    [title : UpdateTitles, status : Columns \cup {Null, "bogus"},
     position : UpdatePositions]
Authorized == {"admin", "project_manager"}

Untouched(r) == r.store = store /\ r.sched = scheduled

\* ---- C1
\* C1 as stated: every createTask, updateTask or moveTask call of a caller
\* that is neither admin nor project_manager fails with Forbidden, changes no
\* record, creates no task and emits no event, whatever its other arguments.
C1_AlwaysForbidden ==
    [][~last'.auth =>
          /\ last'.code = Forbidden
          /\ store' = store
          /\ scheduled' = scheduled]_vars

\* ---- C2
Tasks(s, client_id, status) ==
    {i \in DOMAIN s : s[i].client_id = client_id /\ s[i].status = status}

IndexOf(seq, x) == CHOOSE k \in 1 .. Len(seq) : seq[k] = x

\* x comes right after y in seq
RightAfter(seq, x, y) ==
    /\ \E k \in 1 .. Len(seq) : seq[k] = x
    /\ \E k \in 1 .. Len(seq) : seq[k] = y
    /\ IndexOf(seq, x) = IndexOf(seq, y) + 1

\* the last request was a move that was written to the store
Moved == last.op = "move" /\ last.tid # NoId

\* a neighbour named by the last move: another task of the moved task's
\* tenant, in the target column
GoodNeighbour(n) ==
    /\ n \in DOMAIN store /\ n # last.tid
    /\ store[n].client_id = store[last.tid].client_id
    /\ store[n].status = last.to

\* C2 as stated: after a moveTask naming before (the task that should
\* immediately precede the moved one) and/or after (the task that should
\* immediately follow it), both tasks of the target column of the moved
\* task's tenant, listTasks for that column shows the moved task right after
\* before and right before after.
C2_PlacedBetweenNeighbours ==
    (/\ Moved
     /\ last.kind \in {"both", "before", "after"}
     /\ last.before # NoId => GoodNeighbour(last.before)
     /\ last.after # NoId => GoodNeighbour(last.after)
     /\ last.before # last.after)
    => LET shown == kanban_list(store, store[last.tid].client_id, last.to)
       IN  /\ last.before # NoId => RightAfter(shown, last.tid, last.before)
           /\ last.after # NoId => RightAfter(shown, last.after, last.tid)

\* ---- C3
\* the move the properties below apply to the store: its response
MoveBy(role, id, to, b, a) == kanban_move(store, scheduled, clock, role, id, to, b, a)

Lower(x, y) == IF x < y THEN x ELSE y
Higher(x, y) == IF x < y THEN y ELSE x

C4_CreateAtEndOfTodo ==
    \A role \in Authorized, c \in Clients :
        LET r == kanban_create(store, scheduled, clock, role, c, "t")
            n == Len(store) + 1
            S == {store[i].position : i \in Tasks(store, c, "todo")}
        IN  /\ r.tid = n
            /\ DOMAIN r.store = 1 .. n
            /\ \A i \in DOMAIN store : r.store[i] = store[i]
            /\ r.store[n].client_id = c
            /\ r.store[n].status = "todo"
            /\ \/ S = {} /\ r.store[n].position = One
               \/ /\ r.store[n].position - One \in S
                  /\ \A x \in S : x <= r.store[n].position - One

\* a task was created behind the tenant's todo tasks while a task of another
\* column, or of another tenant, held a larger key
C4_Witness ==
    /\ last.op = "create" /\ last.tid # NoId
    /\ \E i \in Tasks(store, store[last.tid].client_id, "todo") :
           store[i].position + One = store[last.tid].position
    /\ \E j \in DOMAIN store :
           /\ store[j].position > store[last.tid].position
           /\ store[j].client_id # store[last.tid].client_id \/ store[j].status # "todo"

\* ---- C5
\* one append to column col of tenant c: a createTask (col = todo), or a
\* moveTask without neighbours of a task of c that is in another column
AppendResults(s, now, c, col) ==
    (IF col = "todo"
     THEN {kanban_create(s, scheduled, now, "admin", c, "t")} ELSE {})
    \cup {kanban_move(s, scheduled, now, "project_manager", i, col, NoId, NoId) :
            i \in {j \in DOMAIN s : s[j].client_id = c /\ s[j].status # col}}

\* ids were appended in this order, and so is every continuation of up to n
\* more appends: the keys increase strictly and the listing is the order of
\* the appends
RECURSIVE AppendedInOrder(_, _, _, _, _, _)
AppendedInOrder(s, now, c, col, ids, n) ==
    /\ kanban_list(s, c, col) = ids
    /\ \A k \in 1 .. Len(ids) - 1 : s[ids[k]].position < s[ids[k + 1]].position
    /\ n > 0 =>
         \A r \in AppendResults(s, now, c, col) :
             /\ r.tid # NoId
             /\ AppendedInOrder(r.store, now + 1, c, col, Append(ids, r.tid), n - 1)

\* C5: appending tasks one after another, without neighbours, to a column
\* that is empty yields strictly increasing keys, and listTasks returns the
\* tasks in the order they were appended.
C5_AppendsInOrder ==
    \A c \in Clients, col \in Columns :
        Tasks(store, c, col) = {} =>
            AppendedInOrder(store, clock, c, col, <<>>, MaxAppends)

\* two tasks were appended by moves to a column that was empty, and are listed
\* in that order
C5_Witness ==
    /\ Moved /\ last.kind = "append" /\ last.tid = 2
    /\ kanban_list(store, store[2].client_id, last.to) = <<1, 2>>
    /\ store[1].position = One /\ store[2].position = 2 * One
    /\ last.to # "todo"

\* ---- C6
\* C6 as stated: a moveTask without neighbours sets the task's column to
\* targetColumn and its position to (largest key of the task's tenant in
\* targetColumn) + 1.0, or to 1.0 when the tenant has no task there.
C6_AppendWithinTenant ==
    [][(last'.op = "move" /\ last'.kind = "append") =>
          LET id == last'.tid
              S == {store[i].position : i \in Tasks(store, store[id].client_id, last'.to)}
          IN  /\ store'[id].status = last'.to
              /\ store'[id].position = IF S = {} THEN One ELSE SetMax(S) + One]_vars

\* ---- C7
\* the tasks of tenant c in s
Board(s, c) == {<<i, s[i]>> : i \in {j \in DOMAIN s : s[j].client_id = c}}

\* the same store with one task of another tenant in another column or at
\* another key
Variants(s, c) ==
    {[s EXCEPT ![j].status = st, ![j].position = @ + d] :
        j \in {i \in DOMAIN s : s[i].client_id # c}, st \in Columns, d \in {0, One}}

\* C7 as stated: two runs that differ only in the tasks of another tenant give
\* the same result, and store the same keys, for every createTask, moveTask
\* and listTasks of tenant c.
C7_TenantIsolation ==
    \A c \in Clients :
        \A v \in Variants(store, c) :
            /\ Board(kanban_create(store, scheduled, clock, "admin", c, "t").store, c)
                 = Board(kanban_create(v, scheduled, clock, "admin", c, "t").store, c)
            /\ \A col \in Columns : kanban_list(store, c, col) = kanban_list(v, c, col)
            /\ \A id \in {i \in DOMAIN store : store[i].client_id = c}, to \in Columns :
                 \A b \in Tasks(store, c, to) \cup {NoId}, a \in Tasks(store, c, to) \cup {NoId} :
                   LET r1 == kanban_move(store, scheduled, clock, "admin", id, to, b, a)
                       r2 == kanban_move(v, scheduled, clock, "admin", id, to, b, a)
                   IN  r1.code = r2.code /\ Board(r1.store, c) = Board(r2.store, c)

\* ---- C8
Others(seq, id) == SelectSeq(seq, LAMBDA x : x # id)

\* C8: createTask and moveTask change the column and the key of no task other
\* than the one created or moved (no task is dropped either), so the other
\* tasks of every column are listed in the same order before and after.
C8_NoRenumbering ==
    [][(last'.op \in {"create", "move"}) =>
          /\ DOMAIN store \subseteq DOMAIN store'
          /\ \A i \in DOMAIN store \ {last'.tid} :
                 /\ store'[i].status = store[i].status
                 /\ store'[i].position = store[i].position
          /\ store' # store =>
                 \A c \in Clients, col \in MoveTargets :
                     Others(kanban_list(store', c, col), last'.tid)
                       = Others(kanban_list(store, c, col), last'.tid)]_vars

\* a task was moved between two others of a column that keeps both
C8_Witness ==
    /\ Moved /\ last.kind = "both"
    /\ last.before # last.tid /\ last.after # last.tid /\ last.before # last.after
    /\ store[last.before].status = last.to /\ store[last.after].status = last.to

\* ---- C9
\* C9 as stated: a moveTask of a stored task whose beforeId or afterId is a
\* well-formed id of no stored task fails with NotFound, whether both
\* neighbours are given, only before, or only after; the task keeps its column
\* and key and no event is emitted.
C9_UnresolvedNeighbourNotFound ==
    \A role \in Authorized, id \in DOMAIN store, to \in Columns :
        \A b \in DOMAIN store \cup {UnknownId(store), NoId},
           a \in DOMAIN store \cup {UnknownId(store), NoId} :
            (b = UnknownId(store) \/ a = UnknownId(store)) =>
                LET r == MoveBy(role, id, to, b, a)
                IN  r.code = NotFound /\ Untouched(r)

\* ---- C10
\* C10 as stated: updateTask and moveTask on a well-formed id that matches no
\* stored task fail with NotFound, change no record and emit no event (the
\* caller authorized, the body accepted by the schema, the neighbour ids of
\* the move well-formed or absent).
C10_UnknownTaskNotFound ==
    \A role \in Authorized :
        /\ \A payload \in AllUpdates :
               payload.status # "bogus" =>
                   LET r == kanban_update(store, scheduled, clock, role,
                                          UnknownId(store), payload)
                   IN  r.code = NotFound /\ Untouched(r)
        /\ \A to \in Columns :
               \A b \in DOMAIN store \cup {UnknownId(store), NoId},
                  a \in DOMAIN store \cup {UnknownId(store), NoId} :
                   LET r == MoveBy(role, UnknownId(store), to, b, a)
                   IN  r.code = NotFound /\ Untouched(r)

\* ---- C11
\* the responses that stand for InvalidArgument: oid()'s 400 and the schema
\* error 422
InvalidArgument == {BadRequest, Unprocessable}

\* C11 as stated: an authorized updateTask or moveTask with a malformed task
\* id, a malformed neighbour id or an unknown column fails with
\* InvalidArgument, whatever its other arguments, changes no record and emits
\* no event.
C11_MalformedInvalidArgument ==
    \A role \in Authorized :
        /\ \A id \in TaskIds(store), payload \in AllUpdates :
               (id = BadId \/ payload.status = "bogus") =>
                   LET r == kanban_update(store, scheduled, clock, role, id, payload)
                   IN  r.code \in InvalidArgument /\ Untouched(r)
        /\ \A id \in TaskIds(store), to \in Columns \cup {"bogus"} :
               \A b \in TaskIds(store) \cup {NoId}, a \in TaskIds(store) \cup {NoId} :
                   (BadId \in {id, b, a} \/ to = "bogus") =>
                       LET r == MoveBy(role, id, to, b, a)
                       IN  r.code \in InvalidArgument /\ Untouched(r)

\* ---- C12
\* the last request was an update that reached the addressed task
Updated == last.op = "update" /\ last.tid # NoId

\* C12: an authorized updateTask with no field provided, on a stored task,
\* answers 200 with the stored record, leaves every record as it was,
\* updated_at included, and schedules no event; so does every repetition.
C12_EmptyUpdateNoOp ==
    [][(last'.op = "update" /\ last'.tid # NoId /\ last'.payload = NoFields) =>
          /\ last'.code = OK
          /\ store' = store
          /\ scheduled' = scheduled
          /\ clock' = clock]_vars

\* an empty update was answered for a task that an earlier request had moved
\* or updated
C12_Witness ==
    /\ Updated /\ last.payload = NoFields /\ last.code = OK
    /\ store[last.tid].updated_at > store[last.tid].created_at

\* ---- C13
\* C13: an updateTask that is written changes, of the addressed task, exactly
\* the fields provided and updated_at: title, column and ordering key take the
\* provided value or keep theirs, the tenant id and created_at keep theirs,
\* and no other task is modified, added or dropped.
C13_UpdateOnlyProvided ==
    [][(last'.op = "update" /\ last'.tid # NoId /\ last'.payload # NoFields) =>
          LET id == last'.tid
              p == last'.payload
          IN  /\ DOMAIN store' = DOMAIN store
              /\ \A i \in DOMAIN store \ {id} : store'[i] = store[i]
              /\ store'[id].client_id = store[id].client_id
              /\ store'[id].created_at = store[id].created_at
              /\ store'[id].updated_at = clock
              /\ store'[id].title = IF p.title = Null THEN store[id].title ELSE p.title
              /\ store'[id].status = IF p.status = Null THEN store[id].status ELSE p.status
              /\ store'[id].position =
                     IF p.position = <<>> THEN store[id].position ELSE p.position[1]]_vars

\* an update of the title alone was written to a task that is not at its
\* creation key, next to another task
C13_Witness ==
    /\ Updated /\ last.payload = [title |-> "x", status |-> Null, position |-> <<>>]
    /\ store[last.tid].title = "x"
    /\ store[last.tid].position # One
    /\ Len(store) >= 2

\* ------------------------------------------------------------------- C14
Mutations == {"create", "update", "move"}

EventType(op) ==
    CASE op = "create" -> "kanban:create"
      [] op = "update" -> "kanban:update"
      [] op = "move" -> "kanban:move"

Registered(w) ==
    conn[w].tenant \in DOMAIN active /\ InList(active[conn[w].tenant], w)

\* the websockets of a client that are registered and held by their peers
Observers(client_id) ==
    {w \in Conns : conn[w].tenant = client_id /\ conn[w].open /\ Registered(w)}

\* C14: a mutation that is persisted while an observer of the task's tenant is
\* subscribed and connected hands exactly one event of the matching kind, with
\* the task's id, to the broadcast of that tenant
C14_OneEventPerMutation ==
    [][(last'.op \in Mutations /\ store' # store
            /\ Observers(store'[last'.tid].client_id) # {})
        => scheduled' = Append(scheduled,
                               [client |-> store'[last'.tid].client_id,
                                type |-> EventType(last'.op),
                                id |-> last'.tid])]_vars

\* ------------------------------------------------------------------- C15
\* C15: every event a websocket has received was published for the tenant the
\* websocket is subscribed to
C15_EventsTenantIsolated ==
    \A w \in Conns :
        \A k \in 1 .. Len(inbox[w]) : inbox[w][k].client = conn[w].tenant

\* an event of T1 has been delivered to an observer of T1, and an observer of
\* T2 that subscribed earlier has received nothing
C15_Witness ==
    /\ scheduled = <<>> /\ running = <<>>
    /\ \E w1, w2 \in Conns :
           /\ w2 < w1
           /\ conn[w1].tenant = "T1" /\ inbox[w1] # <<>>
           /\ conn[w2].tenant = "T2" /\ w2 \in Observers("T2")
           /\ inbox[w2] = <<>>

C17_PersistedReturnsSuccess ==
    [][(last'.op \in Mutations /\ store' # store) => last'.code = OK]_vars

\* ------------------------------------------------------------------- C18
\* C18: a websocket to which a send failed is no longer registered, and no
\* broadcast has been abandoned before it reached its last websocket
C18_FailedSendUnsubscribes ==
    /\ aborted = 0
    /\ \A w \in Conns : conn[w].failed => ~Registered(w)

\* ------------------------------------------------------------------- C19
\* C19: a websocket whose handler has finished is not registered
C19_ClosedNotRegistered ==
    \A w \in Conns : conn[w].pc \in {"ended", "crashed"} => ~Registered(w)

\* ------------------------------------------------------------------- C20
\* C20: a client is a key of the registry exactly when one of its websockets
\* has connected without a disconnect since, and no key holds an empty list
C20_KeyIffConnection ==
    /\ \A c \in DOMAIN active : active[c] # <<>>
    /\ \A c \in Clients :
           c \in DOMAIN active
               <=> \E w \in Conns : /\ conn[w].tenant = c
                                    /\ conn[w].pc \in {"receiving", "crashed"}

\* the only websocket of T1 has disconnected and T1's key is gone, while T2
\* keeps its key
C20_Witness ==
    /\ \E w \in Conns : conn[w].tenant = "T1" /\ conn[w].pc = "ended"
    /\ "T1" \notin DOMAIN active
    /\ "T2" \in DOMAIN active

\* ------------------------------------------------------------------- C24
\* the place of a column in the enumeration todo, in_progress, under_review,
\* completed
EnumOrd(status) ==
    CASE status = "todo" -> 1
      [] status = "in_progress" -> 2
      [] status = "under_review" -> 3
      [] status = "completed" -> 4

\* C24: the unfiltered list of a tenant is ordered by column in enumeration
\* order, then by ordering key, then by created-at
C24_ListInEnumerationOrder ==
    \A c \in Clients :
        LET l == kanban_list(store, c, Null)
        IN  \A k \in 1 .. Len(l) - 1 :
                LET a == store[l[k]]
                    b == store[l[k + 1]]
                IN  \/ EnumOrd(a.status) < EnumOrd(b.status)
                    \/ /\ a.status = b.status
                       /\ \/ a.position < b.position
                          \/ /\ a.position = b.position
                             /\ a.created_at <= b.created_at

\* ------------------------------------------------------------------- C25
\* C25: every stored task has a tenant and one of the four columns, and a
\* step removes no task and changes no task's tenant
C25_TenantAndColumnKept ==
    /\ [](\A i \in DOMAIN store :
              store[i].client_id \in Clients /\ store[i].status \in Columns)
    /\ [][\A i \in DOMAIN store :
              i \in DOMAIN store' /\ store'[i].client_id = store[i].client_id]_vars

\* a task has been moved to another column next to a task of the other tenant
C25_Witness ==
    /\ last.op = "move" /\ last.tid # NoId
    /\ store[last.tid].status = "in_progress"
    /\ store[last.tid].updated_at > store[last.tid].created_at
    /\ \E j \in DOMAIN store : store[j].client_id # store[last.tid].client_id

\* ------------------------------------------------------------------- C26
\* C26: a websocket receives an event, or has a send fail, only as the next
\* entry of the snapshot of a running broadcast, and a broadcast that goes on
\* keeps its snapshot and moves one entry ahead, whatever connect and
\* disconnect do meanwhile
C26_DeliveryOverSnapshot ==
    [][/\ \A w \in Conns :
              (inbox'[w] # inbox[w] \/ (conn'[w].failed /\ ~conn[w].failed))
              => \E k \in 1 .. Len(running) :
                     /\ running[k].i <= Len(running[k].conns)
                     /\ running[k].conns[running[k].i] = w
                     /\ inbox'[w] \in {inbox[w], Append(inbox[w], running[k].msg)}
       /\ \A k \in 1 .. Len(running) :
              (Len(running') = Len(running) /\ scheduled' = scheduled)
              => /\ running'[k].conns = running[k].conns
                 /\ running'[k].msg = running[k].msg
                 /\ running'[k].i \in {running[k].i, running[k].i + 1}
                 /\ running'[k].i <= Len(running[k].conns)]_vars

\* a broadcast is about to send to a websocket that was unsubscribed after
\* the snapshot, while a websocket subscribed after the snapshot is registered
\* for the same tenant and has received nothing
C26_Witness ==
    \E k \in 1 .. Len(running), v \in Conns :
        LET task == running[k]
            w == task.conns[task.i]
        IN  /\ conn[w].pc = "ended" /\ ~Registered(w)
            /\ conn[v].tenant = task.msg.client /\ v \in Observers(task.msg.client)
            /\ ~InList(task.conns, v)
            /\ inbox[v] = <<>>

\* ------------------------------------------------------------------- C27
Times(arr, w) == Cardinality({k \in 1 .. Len(arr) : arr[k] = w})

\* C27: a websocket is registered at most once and only under the tenant it
\* connected with, no snapshot of a broadcast holds a websocket twice, and
\* disconnect of a websocket that is not registered under the tenant leaves the
\* registry as it is
C27_RegisteredOnce ==
    /\ \A w \in Conns : \A c \in DOMAIN active :
           /\ Times(active[c], w) <= 1
           /\ Times(active[c], w) = 1 => conn[w].tenant = c
    /\ \A k \in 1 .. Len(running) : \A w \in Conns : Times(running[k].conns, w) <= 1
    /\ \A c \in Clients : \A w \in Conns :
           ~(c \in DOMAIN active /\ InList(active[c], w))
           => disconnect(active, c, w) = active

\* one websocket has disconnected, so that a second disconnect of it is a case
\* of the last conjunct, and the other one, registered under the same tenant,
\* has received an event once
C27_Witness ==
    \E v, w \in Conns :
        /\ conn[v].pc = "ended" /\ conn[w].tenant = conn[v].tenant
        /\ Registered(w) /\ Len(inbox[w]) = 1
        /\ running = <<>> /\ scheduled = <<>>

\* ------------------------------------------------------------------- C21
\* C21: what a websocket has received for a tenant is in the order of
\* publication (the n-th broadcast of a behaviour carries the url n)
C21_DeliveredInPublishOrder ==
    \A w \in Conns :
        \A a, b \in 1 .. Len(inbox[w]) :
            (a < b /\ inbox[w][a].client = inbox[w][b].client)
            => inbox[w][a].url < inbox[w][b].url

\* ------------------------------------------------------------------- C22
\* C22: no observer that is connected and reading waits behind a send of the
\* same broadcast that is suspended on an observer that has stopped reading
C22_SlowObserverDoesNotStall ==
    \A k \in 1 .. Len(running) :
        LET task == running[k]
            w == task.conns[task.i]
        IN  (conn[w].open /\ conn[w].stalled)
            => \A j \in task.i + 1 .. Len(task.conns) :
                   LET v == task.conns[j]
                   IN  ~(conn[v].open /\ ~conn[v].stalled /\ Registered(v))

\* ------------------------------------------------------------------- C23
\* C23: two tasks of one tenant in one column never hold the same ordering
\* key, as in every serial order of creations and neighbour-less moves
C23_ConcurrentAppendsDistinct ==
    \A i, j \in DOMAIN store :
        (i < j /\ store[i].client_id = store[j].client_id
               /\ store[i].status = store[j].status)
        => store[i].position # store[j].position

\* ------------------------------------------------------------ specification

Init ==
    /\ store = <<>>
    /\ clock = 0
    /\ scheduled = <<>>
    /\ last = [op |-> "none", kind |-> "none", auth |-> TRUE, code |-> OK, tid |-> NoId,
               to |-> Null, before |-> NoId, after |-> NoId, payload |-> NoFields]
    /\ active = [c \in {} |-> <<>>]
    /\ conn = [w \in Conns |-> [tenant |-> Null, pc |-> "new", open |-> FALSE,
                                 failed |-> FALSE, stalled |-> FALSE]]
    /\ inbox = [w \in Conns |-> <<>>]
    /\ running = <<>>
    /\ published = 0
    /\ aborted = 0
    /\ threads = [t \in Threads |-> Idle]

Next == DoCreate \/ DoUpdate \/ DoMove \/ DoMoveUnknown \/ DoMoveRejected

Spec == Init /\ [][Next]_vars

NextWs ==
    \/ WsConnect \/ WsClose \/ WsDisconnect \/ WsBinary
    \/ UploadLogo \/ BroadcastStart \/ BroadcastSend

SpecWs == Init /\ [][NextWs]_vars

\* the task handlers with observers subscribed
NextObs == WsConnect \/ WsClose \/ WsDisconnect \/ WsKanban

SpecObs == Init /\ [][NextObs]_vars

\* websockets and broadcasts alone, with observers that stop reading and more
\* than one broadcast in flight
NextPub ==
    \/ WsConnect \/ WsClose \/ WsDisconnect \/ WsStall
    \/ UploadLogoPub \/ BroadcastStart \/ BroadcastSend

SpecPub == Init /\ [][NextPub]_vars

\* creations and neighbour-less moves handled by several threads at once
NextRace == RaceCreateRead \/ RaceCreateWrite \/ RaceMoveRead \/ RaceMoveWrite

SpecRace == Init /\ [][NextRace]_vars
====
